---- MODULE Spec2Model ----
(***************************************************************************)
(* A model of app.py, the PDF tutor: one script that the host UI framework *)
(* re-executes from top to bottom after every user interaction.            *)
(*                                                                         *)
(* State: the book folder and its files, the process environment, the      *)
(* framework's per-session widget state, the framework's memoisation store*)
(* behind read_pdf_pages, and a record of what the last script run  did.   *)
(* One action per user interaction (each triggers one whole script run)    *)
(* and one per change of the folder's contents.  A script run is atomic    *)
(* with respect to folder changes.                                         *)
(*                                                                         *)
(* Text.  A Python str is a TLA+ string; \o concatenates.  Where the code  *)
(* strips whitespace the text is held as a sequence of chunks, each chunk  *)
(* either a run of whitespace or a run of other characters, and Join turns *)
(* the chunks into the str.  Python's None, where a str is expected, is    *)
(* the empty set and a present value v is {v}.                             *)
(***************************************************************************)
EXTENDS Integers, Sequences, FiniteSets, TLC

\* ------------------------------------------------------------ bounds
MaxMtime == 2
MaxLen == 3
MaxTextLen == 1
MaxEdits == 2

\* ------------------------------------------------------------ the state
VARIABLES
    book_dir,   \* os.path.isdir(BOOK_DIR)
    files,      \* the folder's entries: name -> NoFile or File(mtime, doc)
    env,        \* the process: api_key is os.getenv("OPENAI_API_KEY"), sdk is OpenAI is not None
    session,    \* the framework's widget state of the browser session
    store,      \* the memoisation store of read_pdf_pages: (path, mtime) -> pages
    history,    \* history of the queries made, for the cache properties
    pass,       \* what the last script run did
    edits,      \* how many times the folder was changed
    cw          \* the context window builder applied on its own (SpecWindow)

vars == <<book_dir, files, env, session, store, history, pass, edits, cw>>

\* ------------------------------------------------------------ text
Whitespace == {" ", "\n", "\t"}

RECURSIVE LStrip(_)
LStrip(chunks) ==
    IF chunks # <<>> /\ Head(chunks) \in Whitespace
    THEN LStrip(Tail(chunks))
    ELSE chunks

RECURSIVE RStrip(_)
RStrip(chunks) ==
    IF chunks # <<>> /\ chunks[Len(chunks)] \in Whitespace
    THEN RStrip(SubSeq(chunks, 1, Len(chunks) - 1))
    ELSE chunks

\* str.strip() on a chunked text
Strip(chunks) == RStrip(LStrip(chunks))

RECURSIVE Join(_)
Join(chunks) ==
    IF chunks = <<>> THEN "" ELSE Head(chunks) \o Join(Tail(chunks))

\* x or "" for an optional chunked text
OrEmpty(opt) == IF opt = {} THEN <<>> ELSE CHOOSE c \in opt : TRUE

\* list[i] with a zero-based, possibly negative, Python index; the empty set
\* stands for IndexError
PyIndex(list, i) ==
    IF 0 <= i /\ i < Len(list) THEN {list[i + 1]}
    ELSE IF i < 0 /\ -i <= Len(list) THEN {list[Len(list) + i + 1]}
    ELSE {}

\* sep.join(parts)
RECURSIVE JoinWith(_, _)
JoinWith(sep, parts) ==
    IF parts = <<>> THEN ""
    ELSE IF Len(parts) = 1 THEN parts[1]
    ELSE parts[1] \o sep \o JoinWith(sep, Tail(parts))

\* ------------------------------------------------- context window builder
\* The entries lines 81-85 append, before any page text is read: the label
\* kind, the page number in the label and the zero-based index into pages.
PrevGuard(page_idx, num_pages) == page_idx > 1

NextGuardOffByOne(page_idx, num_pages) == page_idx <= num_pages
NextGuard(page_idx, num_pages) == page_idx < num_pages

window_plan(page_idx, num_pages) ==
    (IF PrevGuard(page_idx, num_pages)
     THEN <<[kind |-> "Prev", number |-> page_idx - 1, index |-> page_idx - 2]>>
     ELSE <<>>)
    \o <<[kind |-> "Current", number |-> page_idx, index |-> page_idx - 1]>>
    \o (IF NextGuard(page_idx, num_pages)
        THEN <<[kind |-> "Next", number |-> page_idx + 1, index |-> page_idx]>>
        ELSE <<>>)

\* f"[{kind}: Page {number}]\n{text}"
entry_text(kind, number, text) ==
    "[" \o kind \o ": Page " \o ToString(number) \o "]\n" \o text

\* The truth test of the list comprehension on line 88: if t, t the
\* formatted entry.
KeepNonEmptyPage(t) == Len(t.text) > 0
KeepEntry(t) == Len(t.entry) > 0

\* [t for t in context_texts if t]
RECURSIVE keep_entries(_)
keep_entries(parts) ==
    IF parts = <<>> THEN <<>>
    ELSE (IF KeepEntry(Head(parts)) THEN <<Head(parts)>> ELSE <<>>)
         \o keep_entries(Tail(parts))

\* Lines 80-88.  raised: a page read hit IndexError.  context_texts: the
\* entries kept by line 88, each with the page text it was built from.
context_window(pages, page_idx) ==
    LET num_pages == Len(pages)
        plan == window_plan(page_idx, num_pages)
        ok == \A k \in 1..Len(plan) : PyIndex(pages, plan[k].index) # {}
        built == [k \in 1..Len(plan) |->
                    LET text == CHOOSE t \in PyIndex(pages, plan[k].index) : TRUE
                    IN  [kind |-> plan[k].kind, number |-> plan[k].number,
                         index |-> plan[k].index, text |-> text,
                         entry |-> entry_text(plan[k].kind, plan[k].number, text)]]
        kept == IF ok THEN keep_entries(built) ELSE <<>>
    IN  [raised |-> ~ok,
         plan |-> plan,
         context_texts |-> kept,
         context_text |-> JoinWith("\n\n-----\n\n", [k \in 1..Len(kept) |-> kept[k].entry])]

\* ------------------------------------------------------- the book folder
\* A directory entry: num stands for the leading number of the file name
\* (01_Chapter.pdf, 02_Chapter.pdf, line 44) and ext for its extension.
Chapter1 == [num |-> 1, ext |-> ".pdf"]
Chapter2 == [num |-> 2, ext |-> ".PDF"]
Notes == [num |-> 3, ext |-> ".txt"]
NoName == [num |-> 0, ext |-> ""]
Names == {Chapter1, Chapter2, Notes}
PdfNames == {Chapter1, Chapter2}

\* str.lower() on an extension
lower(ext) ==
    CASE ext = ".PDF" -> ".pdf"
      [] ext = ".TXT" -> ".txt"
      [] OTHER -> ext

\* What pdfplumber finds in a file's bytes: valid is whether the bytes parse
\* as a PDF, raw is what page.extract_text() returns for each page (None for
\* a page with no text layer).
NotAPdf == [valid |-> FALSE, raw |-> <<>>]
ZeroPages == [valid |-> TRUE, raw |-> <<>>]
OnePage == [valid |-> TRUE, raw |-> << {<<"Only page.">>} >>]
ThreePages ==
    [valid |-> TRUE,
     raw |-> << {<<"Intro text.", "\n">>}, {}, {<<" ", "Summary text.">>} >>]
Docs == {NotAPdf, ZeroPages, OnePage, ThreePages}

Mtimes == 1..MaxMtime
NoFile == [exists |-> FALSE, mtime |-> 0, doc |-> NotAPdf]
File(mtime, doc) == [exists |-> TRUE, mtime |-> mtime, doc |-> doc]

\* line 42: os.path.isfile(full) and name.lower().endswith(".pdf")
eligible(entries, name) == entries[name].exists /\ lower(name.ext) = ".pdf"

\* lines 38-45: the eligible entries sorted by lower-cased base name
list_pdfs(entries) ==
    LET found == {n \in Names : eligible(entries, n)}
    IN  CHOOSE s \in [1..Cardinality(found) -> found] :
            /\ \A n \in found : \E i \in DOMAIN s : s[i] = n
            /\ \A i, j \in DOMAIN s : i < j => s[i].num < s[j].num

\* ------------------------------------------------ extraction and its cache
\* lines 58-65, the body of read_pdf_pages: raised is the parser's exception
\* on bytes that are no PDF.
extract_swallowing(doc) ==
    [raised |-> FALSE,
     texts |-> [k \in 1..Len(doc.raw) |-> Join(Strip(OrEmpty(doc.raw[k])))]]
extract(doc) ==
    [raised |-> ~doc.valid,
     texts |-> IF doc.valid
               THEN [k \in 1..Len(doc.raw) |-> Join(Strip(OrEmpty(doc.raw[k])))]
               ELSE <<>>]

\* line 55-56: the memoisation key is the call's arguments
cache_key(file_path, mtime) == <<file_path, mtime>>

never_hit(memo, key) == FALSE
cache_hit(memo, key) == key \in DOMAIN memo

\* lines 55-68: read_pdf_pages(chapter_path, mtime) through the memoisation
\* store.  A call that raises stores nothing.
read_pdf_pages(memo, entries, file_path, mtime) ==
    LET key == cache_key(file_path, mtime)
        got == extract(entries[file_path].doc)
    IN  IF cache_hit(memo, key)
        THEN [raised |-> FALSE, file_read |-> FALSE, pages |-> memo[key],
              store |-> memo]
        ELSE IF got.raised
        THEN [raised |-> TRUE, file_read |-> TRUE, pages |-> <<>>,
              store |-> memo]
        ELSE [raised |-> FALSE, file_read |-> TRUE, pages |-> got.texts,
              store |-> [k \in DOMAIN memo \cup {key} |->
                            IF k = key THEN got.texts ELSE memo[k]]]

\* ------------------------------------------------------- template catalog
\* lines 97-106, in the dict's order (the en dash and the curly quotes of
\* line 105 are written in ASCII)
TemplateLabels ==
    << "Summarize key points",
       "Explain like I'm in high school",
       "Explain like I'm in elementary school",
       "Make quiz questions",
       "Define difficult words",
       "Step-by-step explanation",
       "Real-life example",
       "Quick recap (30 seconds)" >>

QUESTION_TEMPLATES ==
    [label \in {TemplateLabels[i] : i \in DOMAIN TemplateLabels} |->
        CASE label = "Summarize key points" ->
               "Summarize the most important ideas on this page in simple bullet points for a 9th grade student."
          [] label = "Explain like I'm in high school" ->
               "Explain the page content in very simple words for a high school student. Avoid jargon. Use short sentences and small examples."
          [] label = "Explain like I'm in elementary school" ->
               "Explain the page as if I am in grade 5. Use everyday examples and comparisons a child understands."
          [] label = "Make quiz questions" ->
               "Create 3 short multiple-choice questions (with 4 options each) from this page. Mark the correct answers clearly in the end."
          [] label = "Define difficult words" ->
               "List any difficult or technical words on this page and define them in very simple terms."
          [] label = "Step-by-step explanation" ->
               "Break down the content of this page step-by-step in clear, numbered points."
          [] label = "Real-life example" ->
               "Give one simple real-life example that matches the idea on this page. Keep it relevant for a school student."
          [] label = "Quick recap (30 seconds)" ->
               "Give a 4-6 bullet 'quick recap' of this page as if I only have 30 seconds before a test."]

\* line 112
ModeOptions == <<"Custom question">> \o TemplateLabels

\* What the user can type into the custom question field.
Texts ==
    UNION {[1..n -> {" ", "Why?"}] : n \in 0..MaxTextLen}

\* lines 115-118.  typed is the text the custom question field holds, a
\* chunked text, read only under "Custom question"; a catalog string has no
\* leading or trailing whitespace and is one chunk.
question_prefers_typed(mode, typed) ==
    IF typed # <<>> \/ mode = "Custom question" THEN typed
    ELSE <<QUESTION_TEMPLATES[mode]>>
question_for(mode, typed) ==
    IF mode = "Custom question" THEN typed ELSE <<QUESTION_TEMPLATES[mode]>>

\* ------------------------------------------------------------ LLM invoker
SdkMissingText == "OpenAI SDK not found. Run: pip install openai>=1.0.0"
NoKeyText == "No API key provided. Add it in the sidebar or set OPENAI_API_KEY."

\* line 25: the model text field's default
model_name == "gpt-4o-mini"

\* lines 133-138
system_prompt ==
    "You are a patient, friendly tutor for school students (elementary to high school). "
    \o "Answer as simply as possible using ONLY the provided text (which includes the selected page plus its neighbors). "
    \o "If the answer is not in the provided text, say: 'I can't find this in the provided pages.' "
    \o "Prefer bullet points, short sentences, and clear examples. Avoid jargon."

\* lines 143-151 (the plus-minus sign of line 144 is written +/-)
user_prompt(bounded, question) ==
    "Context (selected page with +/-1 neighbors):\n---\n" \o bounded \o "\n---\n\n"
    \o "Student request: " \o question \o "\n\n"
    \o "Rules:\n"
    \o "1) Use ONLY the text above.\n"
    \o "2) Keep it simple for a school student.\n"
    \o "3) Use bullets or short steps when helpful.\n"
    \o "4) If info is missing, say you can't find it in the provided pages."

\* What client.chat.completions.create can do: raise (exc holds the
\* exception), or return a response whose choices each hold message.content,
\* a chunked text or None.
Raises(type, text) == [exc |-> {[type |-> type, text |-> text]}, choices |-> <<>>]
Responds(choices) == [exc |-> {}, choices |-> choices]
RemoteFailures ==
    { Raises("APIConnectionError", "Connection error."),
      Raises("AuthenticationError", "Incorrect API key provided."),
      Raises("RateLimitError", "You exceeded your current quota."),
      Responds(<<>>),
      Responds(<< {} >>) }
RemoteAnswers ==
    { Responds(<< {<<" ", "Memory has three stages.", "\n">>} >>),
      Responds(<< {<<>>} >>) }
RemoteOutcomes == RemoteFailures \cup RemoteAnswers

\* line 128: not api_key
key_is_none(api_key) == api_key = {}
no_api_key(api_key) == api_key = {} \/ api_key = {""}

\* line 163: except Exception takes every exception the call and the reads
\* of the response raise
caught_api_errors_only(type) ==
    type \in {"APIConnectionError", "AuthenticationError", "RateLimitError"}
caught(type) ==
    type \in {"APIConnectionError", "AuthenticationError", "RateLimitError",
              "IndexError", "AttributeError"}

\* lines 153-162: the exception, if any, raised inside the try block
raised_in_try(remote) ==
    IF remote.exc # {} THEN remote.exc
    ELSE IF PyIndex(remote.choices, 0) = {}
    THEN {[type |-> "IndexError", text |-> "list index out of range"]}
    ELSE IF remote.choices[1] = {}
    THEN {[type |-> "AttributeError",
           text |-> "'NoneType' object has no attribute 'strip'"]}
    ELSE {}

NoRequest == [model |-> "", system |-> "", user |-> "", question |-> "", temperature |-> ""]

\* lines 124-164.  raised: an exception left call_llm.  remote_calls: calls
\* of the chat-completion endpoint made.
call_llm(sdk, api_key, model, context_text, question, remote) ==
    IF ~sdk
    THEN [raised |-> FALSE, kind |-> "sdk_missing", result |-> SdkMissingText,
          remote_calls |-> 0, request |-> NoRequest]
    ELSE IF no_api_key(api_key)
    THEN [raised |-> FALSE, kind |-> "no_key", result |-> NoKeyText,
          remote_calls |-> 0, request |-> NoRequest]
    ELSE
      LET bounded == IF context_text = "" THEN "" ELSE context_text
          request == [model |-> model, system |-> system_prompt,
                      user |-> user_prompt(bounded, question),
                      question |-> question, temperature |-> "0.3"]
          failure == raised_in_try(remote)
      IN  IF failure = {}
          THEN [raised |-> FALSE, kind |-> "answer",
                result |-> Join(Strip(OrEmpty(remote.choices[1]))),
                remote_calls |-> 1, request |-> request]
          ELSE LET e == CHOOSE x \in failure : TRUE
               IN  IF caught(e.type)
                   THEN [raised |-> FALSE, kind |-> "llm_error",
                         result |-> "LLM error: " \o e.text,
                         remote_calls |-> 1, request |-> request]
                   ELSE [raised |-> TRUE, kind |-> "raised", result |-> e.text,
                         remote_calls |-> 1, request |-> request]

\* ------------------------------------------------------------- widgets
\* The framework keeps a widget's value between script runs under an
\* identity made of the widget's label and options; a widget a run does not
\* reach loses its value.
NoSelect(none) == [rendered |-> FALSE, options |-> <<>>, value |-> none]
Selected(options, value) == [rendered |-> TRUE, options |-> options, value |-> value]

\* st.selectbox(label, options, index=0): the kept value when the widget
\* was on the page with the same options, else options[0]
selectbox(w, options) ==
    IF w.rendered /\ w.options = options THEN w.value ELSE options[1]

\* st.text_input(label): the kept text, else the empty string
text_input(w) == IF w.rendered THEN w.value ELSE <<>>

Range(seq) == {seq[i] : i \in DOMAIN seq}

\* line 167: not question.strip()
blank_unstripped(question) == Join(question) = ""
blank(question) == Join(Strip(question)) = ""

\* line 34: not os.path.isdir(BOOK_DIR)
dir_check_skipped(is_dir) == FALSE
dir_missing(is_dir) == ~is_dir

\* line 71
no_pages(num_pages) == num_pages = 0

\* ---------------------------------------------------------- one script run
NoKey == <<NoName, 0>>

\* What a script run did, for the properties to read; every field has the
\* value below until the run reaches the line that sets it.
BasePass ==
    [outcome |-> "not_run",     \* how the run ended
     message |-> "",            \* st.error / st.warning text, or the exception the host shows
     listed |-> FALSE,          \* _list_pdfs was called
     chapter_path |-> NoName,
     mtime |-> 0,
     doc |-> NotAPdf,           \* history: what the file held when it was queried
     queried |-> FALSE,         \* read_pdf_pages was called
     file_read |-> FALSE,       \* its body ran: the file was opened and parsed
     returned |-> FALSE,        \* it returned a page list
     pages |-> <<>>,
     page_idx |-> 0,
     stale_page |-> 0,          \* the page picker's kept value as the run began
     window |-> FALSE,          \* lines 80-88 were reached
     plan |-> <<>>,
     context_texts |-> <<>>,
     context_text |-> "",
     preview |-> {},            \* the text the expander of lines 91-94 shows
     mode |-> "",
     question |-> <<>>,
     ask |-> FALSE,
     warning |-> FALSE,         \* line 168
     llm_calls |-> 0,           \* calls of call_llm
     remote_calls |-> 0,        \* calls of the chat-completion endpoint
     request |-> NoRequest,
     remote |-> {},             \* what the endpoint did, when it was called
     stale_text |-> <<>>,       \* the custom question field's text as the run began
     answer_kind |-> "",
     answer |-> {},             \* the text st.write shows under Answer
     seen_before |-> {},        \* hist: the page list this key first returned
     prev_mtime |-> 0]          \* hist: the mtime at the path's previous query

BaseSession(show) ==
    [chapter |-> NoSelect(NoName), page |-> NoSelect(0), mode |-> NoSelect(""),
     text |-> [rendered |-> FALSE, value |-> <<>>], button |-> FALSE,
     show |-> show]

\* lines 96-173, from the help option on
ask_section(p, ses, s, proc, ask, remote) ==
    LET mode == selectbox(s.mode, ModeOptions)
        typed == text_input(s.text)
        question == question_for(mode, typed)
        ses2 == [ses EXCEPT !.mode = Selected(ModeOptions, mode),
                            !.text = [rendered |-> mode = "Custom question",
                                      value |-> IF mode = "Custom question"
                                                THEN typed ELSE <<>>],
                            !.button = TRUE]
        p2 == [p EXCEPT !.mode = mode, !.question = question, !.ask = ask,
                        !.stale_text = typed]
        r == call_llm(proc.sdk, proc.api_key, model_name, p.context_text,
                      Join(question), remote)
    IN  IF ~ask
        THEN [pass |-> [p2 EXCEPT !.outcome = "rendered"], session |-> ses2]
        ELSE IF blank(question)
        THEN [pass |-> [p2 EXCEPT !.outcome = "rendered", !.warning = TRUE,
                                  !.message = "Please type or select a question."],
              session |-> ses2]
        ELSE IF r.raised
        THEN [pass |-> [p2 EXCEPT !.outcome = "exception", !.message = r.result,
                                  !.llm_calls = 1,
                                  !.remote_calls = r.remote_calls,
                                  !.request = r.request, !.answer_kind = r.kind,
                                  !.remote = IF r.remote_calls = 1 THEN {remote} ELSE {}],
              session |-> ses2]
        ELSE [pass |-> [p2 EXCEPT !.outcome = "rendered", !.llm_calls = 1,
                                  !.remote_calls = r.remote_calls,
                                  !.request = r.request, !.answer_kind = r.kind,
                                  !.remote = IF r.remote_calls = 1 THEN {remote} ELSE {},
                                  !.answer = {r.result}],
              session |-> ses2]

\* lines 75-94, then the rest
page_section(p, ses, s, proc, ask, remote) ==
    LET num_pages == Len(p.pages)
        page_options == [i \in 1..num_pages |-> i]
        page_idx == selectbox(s.page, page_options)
        win == context_window(p.pages, page_idx)
        ses2 == [ses EXCEPT !.page = Selected(page_options, page_idx)]
        p2 == [p EXCEPT !.page_idx = page_idx, !.stale_page = s.page.value,
                        !.window = TRUE, !.plan = win.plan,
                        !.context_texts = win.context_texts,
                        !.context_text = win.context_text]
        shown == PyIndex(p.pages, page_idx - 1)
    IN  IF num_pages = 0
        THEN [pass |-> [p EXCEPT !.outcome = "exception", !.message = "TypeError"],
              session |-> ses]
        ELSE IF win.raised \/ (s.show /\ shown = {})
        THEN [pass |-> [p2 EXCEPT !.outcome = "exception",
                                  !.message = "list index out of range"],
              session |-> ses2]
        ELSE ask_section([p2 EXCEPT !.preview = IF s.show THEN shown ELSE {}],
                         ses2, s, proc, ask, remote)

\* The whole script, lines 15-173, run with widget state s (the messages of
\* lines 35 and 49 are written without their backquotes).  hist is the
\* record of earlier queries, read only to fill the pass's history fields.
script(s, is_dir, entries, proc, memo, hist, ask, remote) ==
    LET ses0 == BaseSession(s.show)
        pdf_paths == list_pdfs(entries)
        chapter_path == selectbox(s.chapter, pdf_paths)
        mtime == entries[chapter_path].mtime
        key == <<chapter_path, mtime>>
        got == read_pdf_pages(memo, entries, chapter_path, mtime)
        ses1 == [ses0 EXCEPT !.chapter = Selected(pdf_paths, chapter_path)]
        p1 == [BasePass EXCEPT !.listed = TRUE, !.chapter_path = chapter_path,
                               !.mtime = mtime, !.queried = TRUE,
                               !.doc = entries[chapter_path].doc,
                               !.file_read = got.file_read,
                               !.returned = ~got.raised, !.pages = got.pages,
                               !.seen_before =
                                   IF key \in DOMAIN hist.returned
                                   THEN {hist.returned[key]} ELSE {},
                               !.prev_mtime = hist.last_mtime[chapter_path]]
    IN  IF dir_missing(is_dir)
        THEN [pass |-> [BasePass EXCEPT
                          !.outcome = "dir_missing",
                          !.message = "Folder psychology_book not found next to this app. Create it and add PDF chapters."],
              session |-> ses0, store |-> memo]
        ELSE IF ~is_dir
        THEN [pass |-> [BasePass EXCEPT !.outcome = "exception", !.listed = TRUE,
                                        !.message = "FileNotFoundError"],
              session |-> ses0, store |-> memo]
        ELSE IF pdf_paths = <<>>
        THEN [pass |-> [BasePass EXCEPT
                          !.outcome = "no_pdfs", !.listed = TRUE,
                          !.message = "No PDFs found in psychology_book. Add chapter PDFs and refresh."],
              session |-> ses0, store |-> memo]
        ELSE IF got.raised
        THEN [pass |-> [p1 EXCEPT !.outcome = "exception",
                                  !.message = "PDFSyntaxError"],
              session |-> ses1, store |-> got.store]
        ELSE IF no_pages(Len(got.pages))
        THEN [pass |-> [p1 EXCEPT !.outcome = "empty_doc",
                                  !.message = "Couldn't read any pages from this PDF."],
              session |-> ses1, store |-> got.store]
        ELSE LET r == page_section(p1, ses1, s, proc, ask, remote)
             IN  [pass |-> r.pass, session |-> r.session, store |-> got.store]


NoWindow == [pages |-> <<>>, selected_index |-> 0, built |-> FALSE,
             raised |-> FALSE, plan |-> <<>>, context_texts |-> <<>>,
             context_text |-> ""]

NoHistory == [returned |-> <<>>, last_mtime |-> [n \in Names |-> 0]]

record_query(h, p) ==
    LET key == <<p.chapter_path, p.mtime>>
    IN  IF ~p.queried THEN h
        ELSE [returned |->
                IF p.returned /\ key \notin DOMAIN h.returned
                THEN [k \in DOMAIN h.returned \cup {key} |->
                        IF k = key THEN p.pages ELSE h.returned[k]]
                ELSE h.returned,
              last_mtime |-> [h.last_mtime EXCEPT ![p.chapter_path] = p.mtime]]

\* One rerun: the script runs top to bottom with widget state s.
Run(s, ask, remote) ==
    \E r \in {script(s, book_dir, files, env, store, history, ask, remote)} :
        /\ pass' = r.pass
        /\ session' = r.session
        /\ store' = r.store
        /\ history' = record_query(history, r.pass)
        /\ UNCHANGED <<book_dir, files, env, edits, cw>>

NoRemote == Responds(<<>>)

\* ------------------------------------------------------- user interactions
\* The first load of the page, a browser refresh or the Rerun command.
Refresh == Run(session, FALSE, NoRemote)

SelectChapter(c) ==
    /\ session.chapter.rendered
    /\ c \in Range(session.chapter.options)
    /\ c # session.chapter.value
    /\ Run([session EXCEPT !.chapter.value = c], FALSE, NoRemote)

SelectPage(i) ==
    /\ session.page.rendered
    /\ i \in Range(session.page.options)
    /\ i # session.page.value
    /\ Run([session EXCEPT !.page.value = i], FALSE, NoRemote)

SelectMode(m) ==
    /\ session.mode.rendered
    /\ m \in Range(ModeOptions)
    /\ m # session.mode.value
    /\ Run([session EXCEPT !.mode.value = m], FALSE, NoRemote)

TypeQuestion(t) ==
    /\ session.text.rendered
    /\ t # session.text.value
    /\ Run([session EXCEPT !.text.value = t], FALSE, NoRemote)

ToggleShow ==
    Run([session EXCEPT !.show = ~session.show], FALSE, NoRemote)

PressAsk(remote) ==
    /\ session.button
    /\ Run(session, TRUE, remote)

\* ------------------------------------------------- changes of the folder
WriteFile(n, mtime, doc) ==
    /\ edits < MaxEdits
    /\ book_dir
    /\ files[n] # File(mtime, doc)
    /\ files' = [files EXCEPT ![n] = File(mtime, doc)]
    /\ edits' = edits + 1
    /\ UNCHANGED <<book_dir, env, session, store, history, pass, cw>>

DeleteFile(n) ==
    /\ edits < MaxEdits
    /\ files[n].exists
    /\ files' = [files EXCEPT ![n] = NoFile]
    /\ edits' = edits + 1
    /\ UNCHANGED <<book_dir, env, session, store, history, pass, cw>>

\* ------------------------------------------------------ the specifications
ApiKeys == { {}, {""}, {"sk-test"} }

Libraries ==
    { [dir |-> FALSE, files |-> [n \in Names |-> NoFile]],
      [dir |-> TRUE,
       files |-> [n \in Names |-> IF n = Notes THEN File(1, NotAPdf) ELSE NoFile]],
      [dir |-> TRUE,
       files |-> [n \in Names |-> IF n = Chapter1 THEN File(1, ThreePages)
                                  ELSE IF n = Chapter2 THEN File(1, OnePage)
                                  ELSE File(1, NotAPdf)]],
      [dir |-> TRUE,
       files |-> [n \in Names |-> IF n = Chapter1 THEN File(1, ZeroPages)
                                  ELSE IF n = Chapter2 THEN File(2, NotAPdf)
                                  ELSE NoFile]] }

InitSession ==
    /\ session = BaseSession(FALSE)
    /\ store = <<>>
    /\ history = NoHistory
    /\ pass = BasePass
    /\ edits = 0

\* Spec: a session over a folder that does not change, every widget in play.
Init ==
    /\ \E lib \in Libraries : book_dir = lib.dir /\ files = lib.files
    /\ \E k \in ApiKeys, sdk \in BOOLEAN : env = [api_key |-> k, sdk |-> sdk]
    /\ InitSession
    /\ cw = NoWindow

Next ==
    \/ Refresh
    \/ \E c \in PdfNames : SelectChapter(c)
    \/ \E i \in 1..MaxLen : SelectPage(i)
    \/ \E m \in Range(ModeOptions) : SelectMode(m)
    \/ \E t \in Texts : TypeQuestion(t)
    \/ ToggleShow
    \/ \E remote \in RemoteOutcomes : PressAsk(remote)

Spec == Init /\ [][Next]_vars

\* SpecFiles: the chapters are rewritten, replaced and deleted while the
\* session browses them.
InitFiles ==
    /\ book_dir = TRUE
    /\ files = [n \in Names |-> IF n = Chapter1 THEN File(1, ThreePages)
                                ELSE IF n = Chapter2 THEN File(1, OnePage)
                                ELSE NoFile]
    /\ env = [api_key |-> {"sk-test"}, sdk |-> TRUE]
    /\ InitSession
    /\ cw = NoWindow

NextFiles ==
    \/ Refresh
    \/ \E c \in PdfNames : SelectChapter(c)
    \/ \E i \in 1..MaxLen : SelectPage(i)
    \/ \E n \in PdfNames, m \in Mtimes, d \in Docs : WriteFile(n, m, d)
    \/ \E n \in PdfNames : DeleteFile(n)

SpecFiles == InitFiles /\ [][NextFiles]_vars

\* SpecWindow: the context window builder on every page list of up to MaxLen
\* pages and every index the page picker can return.
PageTexts == {"", "Core concept text.", "Summary text."}

InitWindow ==
    /\ book_dir = FALSE
    /\ files = [n \in Names |-> NoFile]
    /\ env = [api_key |-> {}, sdk |-> TRUE]
    /\ InitSession
    /\ \E n \in 1..MaxLen : \E pages \in [1..n -> PageTexts] : \E i \in 1..n :
          cw = [NoWindow EXCEPT !.pages = pages, !.selected_index = i]


BuildWindow ==
    /\ ~cw.built
    /\ LET r == context_window(cw.pages, cw.selected_index)
       IN  cw' = [cw EXCEPT !.built = TRUE, !.raised = r.raised, !.plan = r.plan,
                            !.context_texts = r.context_texts,
                            !.context_text = r.context_text]
    /\ UNCHANGED <<book_dir, files, env, session, store, history, pass, edits>>

SpecWindow == InitWindow /\ [][BuildWindow]_vars

\* ------------------------------------------------------------ the properties

\* C1: for every page list of N >= 1 pages and every selected index i in
\* 1..N the context window is, in this order, "Prev: Page i-1" with
\* pages[i-2] iff i > 1, "Current: Page i" with pages[i-1] always, and
\* "Next: Page i+1" with pages[i] iff i < N; an empty page keeps its entry.
\* (pages is one-based here: the code's pages[k] is pages[k+1].)
C1_WindowEntries ==
    cw.built =>
      LET N == Len(cw.pages)
          i == cw.selected_index
          want ==
            (IF i > 1
             THEN <<[label |-> "[Prev: Page " \o ToString(i - 1) \o "]",
                     text |-> cw.pages[i - 1]]>>
             ELSE <<>>)
            \o <<[label |-> "[Current: Page " \o ToString(i) \o "]",
                  text |-> cw.pages[i]]>>
            \o (IF i < N
                THEN <<[label |-> "[Next: Page " \o ToString(i + 1) \o "]",
                        text |-> cw.pages[i + 1]]>>
                ELSE <<>>)
      IN  /\ ~cw.raised
          /\ Len(cw.context_texts) = Len(want)
          /\ \A k \in 1..Len(want) :
                /\ cw.context_texts[k].text = want[k].text
                /\ cw.context_texts[k].entry = want[k].label \o "\n" \o want[k].text

\* C1's case: a middle page with no text, between two neighbours.
C1_Witness ==
    /\ cw.built
    /\ Len(cw.pages) = MaxLen
    /\ cw.selected_index \in 2..(MaxLen - 1)
    /\ cw.pages[cw.selected_index] = ""
    /\ cw.pages[cw.selected_index - 1] # ""
    /\ Len(cw.context_texts) = 3

\* C2: every rerun that builds a context window does so with a selected page
\* index in 1..N, N the page count of the document the rerun works on, and
\* every page number the window labels and every page it reads is in 1..N;
\* no page read fails.
C2_PageIndexInRange ==
    pass.window =>
      LET N == Len(pass.pages)
      IN  /\ pass.page_idx \in 1..N
          /\ \A k \in 1..Len(pass.plan) :
                /\ pass.plan[k].number \in 1..N
                /\ pass.plan[k].index + 1 \in 1..N
          /\ pass.outcome = "rendered"
          /\ session.page.rendered /\ session.page.value \in 1..N

\* C2's case: the page picked before the rerun is past the end of what the
\* chapter, rewritten since, now holds.
C2_Witness ==
    /\ pass.window
    /\ edits > 0
    /\ pass.prev_mtime \notin {0, pass.mtime}
    /\ pass.stale_page > Len(pass.pages)
    /\ pass.outcome = "rendered"

\* C3: when the mtime of a path has changed since the path was last queried
\* and the path is queried again, the page list returned is the extraction
\* of what the file holds now (a PDF), never a list stored earlier.
C3_ChangedMtimeServesNewContent ==
    (pass.returned /\ pass.doc.valid /\ pass.prev_mtime \notin {0, pass.mtime}) =>
        pass.pages = extract(pass.doc).texts

\* C4: a query whose (path, mtime) has returned a page list before is a hit:
\* it returns the list the first query returned and neither opens nor parses
\* the file; the stored list of a key never changes.
C4_SecondQueryIsAHit ==
    /\ (pass.queried /\ pass.seen_before # {}) =>
          /\ pass.returned
          /\ ~pass.file_read
          /\ pass.seen_before = {pass.pages}
    /\ \A key \in DOMAIN history.returned :
          key \in DOMAIN store /\ store[key] = history.returned[key]

\* C4's case: a rerun with a key that was queried before.
C4_Witness ==
    /\ pass.queried
    /\ pass.seen_before = {pass.pages}
    /\ ~pass.file_read
    /\ Len(pass.pages) > 0

\* C5: with a credential present, a call of call_llm whose remote call fails
\* (the endpoint raises, or answers with no choice or with no content)
\* returns "LLM error: " followed by the failure's text; call_llm never
\* raises and what it returns is shown as the answer.
C5_RemoteFailureBecomesText ==
    (pass.llm_calls = 1 /\ env.api_key \notin {{}, {""}}) =>
      /\ pass.outcome = "rendered"
      /\ \E text \in pass.answer : TRUE
      /\ \A r \in pass.remote :
            r \in RemoteFailures =>
              LET detail ==
                    IF r.exc # {} THEN (CHOOSE e \in r.exc : TRUE).text
                    ELSE IF r.choices = <<>> THEN "list index out of range"
                    ELSE "'NoneType' object has no attribute 'strip'"
              IN  pass.answer = {"LLM error: " \o detail}

\* C5's case: the endpoint answered with an empty list of choices.
C5_Witness ==
    /\ pass.llm_calls = 1
    /\ pass.remote = {Responds(<<>>)}
    /\ pass.answer = {"LLM error: list index out of range"}

\* C6, as the specification states it: with no credential (absent or empty) call_llm returns the
\* no-credential text, makes no remote call and does not raise.
C6_NoCredentialText ==
    (pass.llm_calls = 1 /\ env.api_key \in {{}, {""}}) =>
      /\ pass.answer = {NoKeyText}
      /\ pass.remote_calls = 0
      /\ pass.outcome = "rendered"

\* C6, amended: with no credential call_llm makes no remote call, does not
\* raise, and returns a fixed text shown as the answer: the no-credential
\* text when the client library is installed, the library-missing text when
\* it is not.
C6_NoCredentialFixedText ==
    (pass.llm_calls = 1 /\ env.api_key \in {{}, {""}}) =>
      /\ pass.answer = {IF env.sdk THEN NoKeyText ELSE SdkMissingText}
      /\ pass.remote_calls = 0
      /\ pass.remote = {}
      /\ pass.outcome = "rendered"
      /\ session.button

\* C6's case: the credential is the empty string and the library is there.
C6_Witness ==
    /\ pass.llm_calls = 1
    /\ env.api_key = {""}
    /\ env.sdk
    /\ pass.answer = {NoKeyText}

\* C7: when the file's bytes are no PDF the extraction raises; the run ends
\* there with the error on the page, builds no window and calls no LLM,
\* nothing is stored for the key, and the chapter picker stays on the page.
C7_ReadFailureHaltsRun ==
    (pass.file_read /\ ~pass.doc.valid) =>
      /\ pass.outcome = "exception"
      /\ pass.message # ""
      /\ ~pass.returned
      /\ ~pass.window
      /\ pass.llm_calls = 0
      /\ <<pass.chapter_path, pass.mtime>> \notin DOMAIN store
      /\ session.chapter.rendered
      /\ pass.chapter_path \in Range(session.chapter.options)

\* C7's case: a chapter that is no PDF was opened while another chapter's
\* pages are in the store.
C7_Witness ==
    /\ pass.file_read
    /\ ~pass.doc.valid
    /\ pass.outcome = "exception"
    /\ DOMAIN store # {}

\* C8: a run over a missing folder, a folder with no eligible file or a
\* document of zero pages stops with a message before any later step; a run
\* whose call_llm meets a missing credential or a failing remote call is not
\* aborted: the error text is the answer and Ask stays on the page.
C8_ErrorPropagation ==
    pass.outcome # "not_run" =>
      /\ ~book_dir =>
            /\ pass.outcome = "dir_missing" /\ pass.message # ""
            /\ ~pass.listed /\ ~pass.queried /\ ~pass.window /\ pass.llm_calls = 0
      /\ (book_dir /\ \A n \in Names : ~(files[n].exists /\ n.ext \in {".pdf", ".PDF"})) =>
            /\ pass.outcome = "no_pdfs" /\ pass.message # ""
            /\ ~pass.queried /\ ~pass.window /\ pass.llm_calls = 0
      /\ (pass.returned /\ pass.pages = <<>>) =>
            /\ pass.outcome = "empty_doc" /\ pass.message # ""
            /\ ~pass.window /\ pass.llm_calls = 0
      /\ (pass.llm_calls = 1
          /\ (env.api_key \in {{}, {""}} \/ pass.remote \cap RemoteFailures # {})) =>
            /\ pass.outcome = "rendered"
            /\ pass.answer # {}
            /\ pass.message = ""
            /\ session.button

\* C8's case: the document has zero pages.
C8_Witness ==
    /\ pass.outcome = "empty_doc"
    /\ pass.returned
    /\ pass.pages = <<>>

\* C9: in every rerun whose help option is a catalog label the question is
\* the catalog's string for that label, and so is the question sent on Ask,
\* whatever the custom question field held.
C9_TemplateQuestion ==
    \A label \in Range(TemplateLabels) :
      pass.mode = label =>
        /\ Join(pass.question) = QUESTION_TEMPLATES[label]
        /\ pass.remote_calls = 1 => pass.request.question = QUESTION_TEMPLATES[label]
        /\ label = "Summarize key points" =>
              pass.question =
                <<"Summarize the most important ideas on this page in simple bullet points for a 9th grade student.">>

\* C9's case: "Summarize key points" chosen while the custom field held text.
C9_Witness ==
    /\ pass.mode = "Summarize key points"
    /\ pass.stale_text = <<"Why?">>
    /\ Join(pass.question) = QUESTION_TEMPLATES["Summarize key points"]

\* C10: a rerun calls call_llm at most once, and only when Ask was pressed
\* and the question holds something other than whitespace; Ask with an empty
\* or whitespace-only question shows the warning and calls nothing; one call
\* of call_llm makes at most one remote call.
C10_AtMostOneCall ==
    /\ pass.llm_calls \in {0, 1}
    /\ pass.remote_calls <= pass.llm_calls
    /\ pass.llm_calls = 1 =>
          /\ pass.ask
          /\ \E k \in 1..Len(pass.question) : pass.question[k] \notin Whitespace
    /\ (pass.ask /\ \A k \in 1..Len(pass.question) : pass.question[k] \in Whitespace) =>
          /\ pass.warning
          /\ pass.llm_calls = 0
          /\ pass.answer = {}
    /\ ~pass.ask => (pass.llm_calls = 0 /\ ~pass.warning /\ pass.answer = {})

\* C10's case: Ask pressed on a question of whitespace only.
C10_Witness ==
    /\ pass.ask
    /\ pass.question = <<" ">>
    /\ pass.warning
    /\ pass.llm_calls = 0

====
